---- MODULE Spec2Model ----
(***************************************************************************)
(* State-machine model of the WhatsApp session service:                    *)
(*   SessionManager (src/whatsapp/sessions.js),                            *)
(*   WhatsAppClient (src/whatsapp/client.js),                              *)
(*   the HTTP routes (src/unnamed/part_000).                               *)
(*                                                                         *)
(* Scheduling.  The service runs on the Node.js event loop.  A handler     *)
(* runs without interruption until it awaits an operation of the external  *)
(* client, a timer or an HTTP transfer; awaits that resolve without such   *)
(* an operation (an async function with a synchronous body) resume in the  *)
(* same turn of the loop, before any other callback.  The variable         *)
(* `running` holds the request whose turn is in progress (0: none); a new  *)
(* request, an external event or the completion of an awaited operation    *)
(* starts only when no turn is in progress.                                *)
(***************************************************************************)
EXTENDS Naturals, Sequences, FiniteSets

\* ------------------------------------------------------------------ bounds
MaxObj == 3        \* WhatsAppClient objects constructed in one run
MaxCmds == 3       \* commands started in a run that exercises the registry
MaxRestarts == 1   \* process restarts in a run that exercises the registry
MaxEvents == 3     \* external-client events in a run that exercises one session
MaxSessionCmds == 2 \* commands started in a run that exercises one session
MaxLoopEvents == 1 \* external-client events in a run that exercises a loop
MaxHookCmds == 1   \* commands started in a run that follows the webhook POSTs
MaxPairEvents == 2 \* external-client events in a run that exercises two sessions
MaxBulk == 3       \* messages in the list of one send-bulk command

Procs == {1, 2}    \* concurrently served requests
Objs == 1 .. MaxObj
NoObj == 0

\* ------------------------------------------------------- user identifiers
\* A userId is a JavaScript number or string (request bodies are JSON and are
\* not converted; restoreSessions and the path parameters use parseInt).  It is
\* modelled by its type and its rendering in a template string `${userId}`.
DigitChars == <<"0", "1", "2", "3", "4", "5", "6", "7", "8", "9">>

IsDigit(c) == \E i \in 1 .. 10 : DigitChars[i] = c

DigitValue(c) == (CHOOSE i \in 1 .. 10 : DigitChars[i] = c) - 1

RECURSIVE NumToStr(_)
NumToStr(n) == IF n < 10 THEN <<DigitChars[n + 1]>>
               ELSE Append(NumToStr(n \div 10), DigitChars[(n % 10) + 1])

NumKey(n) == [isNum |-> TRUE, str |-> NumToStr(n)]

StrKey(s) == [isNum |-> FALSE, str |-> s]

\* /session-user-(\d+)/ on a name that starts with 'session-user-': the digits
\* that follow the prefix (none: no match)
RECURSIVE LeadingDigits(_)
LeadingDigits(s) == IF s = <<>> \/ ~IsDigit(Head(s)) THEN <<>>
                    ELSE <<Head(s)>> \o LeadingDigits(Tail(s))

RECURSIVE ParseInt(_)
ParseInt(s) == IF s = <<>> THEN 0
               ELSE 10 * ParseInt(SubSeq(s, 1, Len(s) - 1)) + DigitValue(s[Len(s)])

\* the user populations a run is drawn from: two numeric ids, or a numeric id
\* and the string with the same digits
Populations == { {NumKey(1), NumKey(2)}, {NumKey(1), StrKey(<<"1">>)} }

\* a userId that LocalAuth does not accept in a clientId (a character
\* outside letters, digits, '_' and '-')
DottedKey == StrKey(<<"1", ".">>)

AllKeys == (UNION Populations) \cup {DottedKey}

\* what a run covers: the user ids the backend uses and how many commands,
\* external events and restarts happen.  Runs that exercise the registry
\* interleave commands of two users; runs that exercise one session
\* interleave its external events with its commands; runs that exercise a
\* command that loops interleave it with other commands on its session; runs
\* that exercise the webhooks follow every POST until it settles (the other
\* runs do not: the settling of a POST changes nothing they look at); runs
\* that exercise two sessions interleave the events of two users; runs that
\* exercise the shutdown deliver SIGINT among the commands of two users; runs
\* that exercise a failing initialize use an id the auth strategy rejects.
Scopes ==
  { [ids |-> P, cmds |-> MaxCmds, events |-> 0, restarts |-> MaxRestarts,
     hooks |-> FALSE, signals |-> FALSE] : P \in Populations }
  \cup { [ids |-> {NumKey(1)}, cmds |-> MaxSessionCmds, events |-> MaxEvents,
          restarts |-> 0, hooks |-> FALSE, signals |-> FALSE],
         [ids |-> {NumKey(1)}, cmds |-> MaxCmds, events |-> MaxLoopEvents,
          restarts |-> 0, hooks |-> FALSE, signals |-> FALSE],
         [ids |-> {NumKey(1)}, cmds |-> MaxHookCmds, events |-> MaxEvents,
          restarts |-> 0, hooks |-> TRUE, signals |-> FALSE],
         [ids |-> {NumKey(1), NumKey(2)}, cmds |-> MaxSessionCmds,
          events |-> MaxPairEvents, restarts |-> 0, hooks |-> FALSE, signals |-> FALSE],
         [ids |-> {NumKey(1), NumKey(2)}, cmds |-> MaxSessionCmds,
          events |-> 0, restarts |-> 0, hooks |-> FALSE, signals |-> TRUE],
         [ids |-> {DottedKey}, cmds |-> MaxCmds, events |-> 0,
          restarts |-> 0, hooks |-> FALSE, signals |-> FALSE] }

\* getSessionPath / clearSessionFiles / LocalAuth clientId: the directory
\* 'session-user-' + `${userId}` under ./storage/sessions, named here by the
\* part after the prefix
getSessionPath(u) == u.str

DirNames == { getSessionPath(u) : u \in AllKeys }

\* contents of a session directory: none when the directory does not exist,
\* else the directory itself and the files below it
Absent == {}
Files == {"dir", "creds", "lock"}
LockFiles == {"lock"}

VARIABLES
  scope,                \* what this run covers (fixed at the start)
  serving,              \* the HTTP server: open, draining, closed, exited
  sessions,             \* SessionManager.sessions: key -> object (NoObj: no entry)
  nextObj,              \* objects constructed so far
  userId,               \* WhatsAppClient.userId
  client,               \* WhatsAppClient.client is non-null
  qrCode,               \* WhatsAppClient.qrCode (0: null, else the code)
  isReady,              \* WhatsAppClient.isReady
  initializationError,  \* WhatsAppClient.initializationError is non-null
  conn,                 \* external connection launched by the object
  lastEvent,            \* history: last lifecycle event handled by the object
  rootExists,           \* ./storage/sessions exists
  disk,                 \* session directory -> Absent or its files
  pc, call, arg, result,\* per request: position, command, locals, last outcome
  running,              \* request whose event-loop turn is in progress
  cmds, evCount, restarts,
  pending,              \* event handlers suspended on rendering / download
  posting,              \* webhook POSTs: sent, or settled with their outcome
  lastAttempt, hookMax, \* history of webhook attempts per object
  purged, kept          \* history of destroySession outcomes per key

vars == <<scope, serving, sessions, nextObj, userId, client, qrCode, isReady,
          initializationError, conn, lastEvent, rootExists, disk,
          pc, call, arg, result, running, cmds, evCount, restarts,
          pending, posting, lastAttempt, hookMax, purged, kept>>

objVars == <<userId, client, qrCode, isReady, initializationError, conn,
             lastEvent>>

ids == scope.ids
hookVars == <<pending, posting, lastAttempt, hookMax>>
histVars == <<purged, kept>>

\* the locals of a request: the userId, clearSession, the object held, what
\* follows destroySession, for restoreSessions the identifiers still to
\* restore and those whose restoration failed (logged), what existsSync
\* answered when destroySession purged the files of an untracked user, and for
\* send-bulk the length of the list, the messages still to send (named by
\* their position), the results pushed and, as history, how each call of
\* sendMessage ended (for restoreSessions: the number of identifiers found and
\* how each createSession ended) and which Session the request destroyed before it
\* created one; bodyClear is the clearSession field of the body of /init
NoArg == [uid |-> NumKey(1), clear |-> FALSE, obj |-> NoObj,
          then |-> "respond", todo |-> <<>>, failed |-> {}, had |-> FALSE,
          n |-> 0, items |-> <<>>, results |-> <<>>, att |-> <<>>,
          old |-> NoObj, bodyClear |-> FALSE, snap |-> {}]

Init ==
  /\ scope \in Scopes
  /\ serving = "open"
  /\ sessions = [k \in AllKeys |-> NoObj]
  /\ nextObj = 0
  /\ userId = [o \in Objs |-> NumKey(1)]
  /\ client = [o \in Objs |-> FALSE]
  /\ qrCode = [o \in Objs |-> 0]
  /\ isReady = [o \in Objs |-> FALSE]
  /\ initializationError = [o \in Objs |-> FALSE]
  /\ conn = [o \in Objs |-> "none"]
  /\ lastEvent = [o \in Objs |-> "none"]
  /\ rootExists = FALSE
  /\ disk = [d \in DirNames |-> Absent]
  /\ pc = [p \in Procs |-> "idle"]
  /\ call = [p \in Procs |-> "none"]
  /\ arg = [p \in Procs |-> NoArg]
  /\ result = [p \in Procs |-> "none"]
  /\ running = 0
  /\ cmds = 0
  /\ evCount = 0
  /\ restarts = 0
  /\ pending = {}
  /\ posting = {}
  /\ lastAttempt = [o \in Objs |-> 0]
  /\ hookMax = [o \in Objs |-> 0]
  /\ purged = {}
  /\ kept = [k \in AllKeys |-> 0]

\* ------------------------------------------------------------ the registry
\* a registry lookup that never finds the entry (the check of createSession
\* dropped)
hasSessionNever(u) == FALSE

\* SessionManager.hasSession
hasSession(u) == sessions[u] # NoObj

\* SessionManager.getSessionStatus
getSessionStatus(u) ==
  IF sessions[u] = NoObj THEN [exists |-> FALSE, connected |-> FALSE]
  ELSE [exists |-> TRUE, connected |-> isReady[sessions[u]]]

\* SessionManager.getAllSessions: the keys of the registry
getAllSessions == { k \in AllKeys : sessions[k] # NoObj }

\* parseInt(req.params.userId): the registry key a path parameter stands for
ParamKey(u) == NumKey(ParseInt(LeadingDigits(u.str)))

\* GET /status/:userId, the status string and the reported code (0: none)
StatusOf(u) ==
  LET o == sessions[ParamKey(u)]
      st == getSessionStatus(ParamKey(u))
  IN  [sessionExists |-> st.exists,
       connected |-> st.connected,
       status |-> IF ~st.exists THEN "no_session"
                  ELSE IF st.connected THEN "connected"
                  ELSE IF initializationError[o] THEN "error"
                  ELSE IF qrCode[o] # 0 THEN "waiting_scan"
                  ELSE "initializing",
       error |-> o # NoObj /\ initializationError[o],
       qrCode |-> IF o # NoObj /\ qrCode[o] # 0 /\ ~isReady[o] THEN qrCode[o] ELSE 0]

\* GET /qr/:userId
GetCode(u) ==
  LET o == sessions[ParamKey(u)]
  IN  IF o = NoObj THEN [status |-> "not_found", qrCode |-> 0]
      ELSE IF isReady[o] THEN [status |-> "connected", qrCode |-> 0]
      ELSE IF qrCode[o] = 0 THEN [status |-> "initializing", qrCode |-> 0]
      ELSE [status |-> "waiting_scan", qrCode |-> qrCode[o]]

\* WhatsAppClient.cleanupLockFiles: removes the lock files below the session
\* directory, never the directory
cleanupLockFiles(dk, d) ==
  [dk EXCEPT ![d] = IF dk[d] = Absent THEN Absent ELSE dk[d] \ LockFiles]

\* new Client({authStrategy: new LocalAuth({clientId: `user-${userId}`,
\* dataPath: './storage/sessions'})}) is launched: the external client works
\* in the directory 'session-user-' + `${userId}`, which it creates
launchClient(dk, d) == [dk EXCEPT ![d] = Files]

\* a clearSessionFiles that removes the lock files only and leaves the
\* credentials
clearLockFilesOnly(d, rmOk) == cleanupLockFiles(disk, d)

\* WhatsAppClient.clearSessionFiles: rmSync of the session directory; a failing
\* rmSync is caught and leaves the directory
clearSessionFiles(d, rmOk) ==
  IF rmOk THEN [disk EXCEPT ![d] = Absent] ELSE disk

\* ---------------------------------------------------------------- requests
Free == running = 0

\* a request arrives and is served (requests are alike: the first idle slot
\* takes it)
Start(p) ==
  /\ Free /\ pc[p] = "idle" /\ cmds < scope.cmds
  /\ serving \in {"open", "draining"}
  /\ \A q \in Procs : q < p => pc[q] # "idle"

\* the handler of request p returns: the response is recorded
Respond(p, r) ==
  /\ pc' = [pc EXCEPT ![p] = "idle"]
  /\ result' = [result EXCEPT ![p] = r]
  /\ running' = 0

\* POST /init
InitReq(p, u, force, clearSession) ==
  /\ Start(p)
  /\ cmds' = cmds + 1
  /\ call' = [call EXCEPT ![p] = "init"]
  /\ LET shouldClearSession == clearSession \/ force
     IN  IF hasSession(u) /\ ~force
         THEN /\ Respond(p, "AlreadyExists")
              /\ arg' = [arg EXCEPT ![p] = [NoArg EXCEPT !.uid = u]]
         ELSE /\ result' = [result EXCEPT ![p] = "none"]
              /\ running' = p
              /\ IF hasSession(u) \/ shouldClearSession
                 THEN /\ pc' = [pc EXCEPT ![p] = "destroySession"]
                      /\ arg' = [arg EXCEPT ![p] =
                                   [NoArg EXCEPT !.uid = u, !.then = "createSession",
                                      !.bodyClear = clearSession,
                                      !.clear = IF hasSession(u) THEN shouldClearSession
                                                ELSE TRUE]]
                 ELSE /\ pc' = [pc EXCEPT ![p] = "createSession"]
                      /\ arg' = [arg EXCEPT ![p] = [NoArg EXCEPT !.uid = u]]
  /\ UNCHANGED <<scope, serving, sessions, nextObj, objVars, rootExists, disk, evCount,
                 restarts, hookVars, histVars>>

\* POST /reconnect
ReconnectReq(p, u) ==
  /\ Start(p)
  /\ cmds' = cmds + 1
  /\ call' = [call EXCEPT ![p] = "reconnect"]
  /\ result' = [result EXCEPT ![p] = "none"]
  /\ running' = p
  /\ pc' = [pc EXCEPT ![p] = "destroySession"]
  /\ arg' = [arg EXCEPT ![p] = [NoArg EXCEPT !.uid = u, !.clear = TRUE,
                                               !.then = "createSession"]]
  /\ UNCHANGED <<scope, serving, sessions, nextObj, objVars, rootExists, disk, evCount,
                 restarts, hookVars, histVars>>

\* POST /disconnect
DisconnectReq(p, u, clearSession) ==
  /\ Start(p)
  /\ cmds' = cmds + 1
  /\ call' = [call EXCEPT ![p] = "disconnect"]
  /\ result' = [result EXCEPT ![p] = "none"]
  /\ running' = p
  /\ pc' = [pc EXCEPT ![p] = "destroySession"]
  /\ arg' = [arg EXCEPT ![p] = [NoArg EXCEPT !.uid = u, !.clear = clearSession]]
  /\ UNCHANGED <<scope, serving, sessions, nextObj, objVars, rootExists, disk, evCount,
                 restarts, hookVars, histVars>>

\* --------------------------------------------------------- destroySession
\* the keys whose session directory is that of u
SameDir(u) == { k \in AllKeys : getSessionPath(k) = getSessionPath(u) }

\* what follows destroySession in the route that called it
AfterDestroy(p) ==
  IF arg[p].then = "createSession"
  THEN /\ pc' = [pc EXCEPT ![p] = "createSession"]
       /\ running' = p
       /\ result' = result
  ELSE IF arg[p].then = "drain"
  THEN /\ pc' = [pc EXCEPT ![p] = "drainNext"]
       /\ running' = p
       /\ result' = result
  ELSE Respond(p, "ok")

\* SessionManager.destroySession up to its first suspension, with the
\* synchronous head of WhatsAppClient.disconnect
DestroySessionCall(p) ==
  /\ pc[p] = "destroySession" /\ running = p
  /\ LET u == arg[p].uid
         o == sessions[u]
     IN  /\ kept' = [k \in AllKeys |-> IF k \in SameDir(u) THEN 0 ELSE kept[k]]
         /\ IF o # NoObj
            THEN /\ arg' = [arg EXCEPT ![p].obj = o]
                 /\ isReady' = [isReady EXCEPT ![o] = FALSE]
                 /\ qrCode' = [qrCode EXCEPT ![o] = 0]
                 /\ initializationError' = [initializationError EXCEPT ![o] = FALSE]
                 /\ lastEvent' = [lastEvent EXCEPT ![o] = "disconnect"]
                 /\ IF client[o]
                    THEN /\ pc' = [pc EXCEPT ![p] =
                                     IF arg[p].clear THEN "logout" ELSE "destroy"]
                         /\ running' = 0
                    ELSE /\ pc' = [pc EXCEPT ![p] = "disconnectTail"]
                         /\ running' = p
                 /\ UNCHANGED <<disk, result, purged>>
            ELSE /\ UNCHANGED <<isReady, qrCode, initializationError, lastEvent>>
                 /\ IF arg[p].clear
                    THEN /\ \E rmOk \in BOOLEAN :
                              /\ disk' = clearSessionFiles(getSessionPath(u), rmOk)
                              /\ purged' = IF rmOk THEN purged \cup {u} ELSE purged
                         /\ arg' = [arg EXCEPT ![p].had = disk[getSessionPath(u)] # Absent]
                    ELSE UNCHANGED <<disk, purged, arg>>
                 /\ AfterDestroy(p)
  /\ UNCHANGED <<scope, serving, sessions, nextObj, userId, client, conn, rootExists,
                 call, cmds, evCount, restarts, hookVars>>

\* client.logout() settles (resolved or rejected: the rejection is caught and
\* teardown goes on); disconnect goes on to this.client.destroy(), which
\* throws, caught, when this.client has been set to null meanwhile
LogoutReturn(p) ==
  /\ pc[p] = "logout" /\ Free
  /\ IF client[arg[p].obj]
     THEN /\ pc' = [pc EXCEPT ![p] = "destroy"]
          /\ running' = 0
     ELSE /\ pc' = [pc EXCEPT ![p] = "disconnectTail"]
          /\ running' = p
  /\ UNCHANGED <<scope, serving, sessions, nextObj, objVars, rootExists, disk, call, arg,
                 result, cmds, evCount, restarts, hookVars, histVars>>

\* client.destroy() settles: the browser is closed, or destroy failed and
\* the browser stays; after a failure pupBrowser.close() is awaited when
\* this.client.pupBrowser is set
DestroyReturn(p, out) ==
  /\ pc[p] = "destroy" /\ Free
  /\ LET o == arg[p].obj
     IN  /\ conn' = [conn EXCEPT ![o] = IF out = "closed" /\ conn[o] = "live"
                                        THEN "closed" ELSE conn[o]]
         /\ IF out = "failedBrowser" /\ client[o]
            THEN /\ pc' = [pc EXCEPT ![p] = "forceClose"]
                 /\ running' = 0
            ELSE /\ pc' = [pc EXCEPT ![p] = "disconnectTail"]
                 /\ running' = p
  /\ UNCHANGED <<scope, serving, sessions, nextObj, userId, client, qrCode, isReady,
                 initializationError, lastEvent, rootExists, disk, call,
                 arg, result, cmds, evCount, restarts, hookVars, histVars>>

\* pupBrowser.close() settles; its failure is ignored
ForceCloseReturn(p, ok) ==
  /\ pc[p] = "forceClose" /\ Free
  /\ LET o == arg[p].obj
     IN  conn' = [conn EXCEPT ![o] = IF ok /\ conn[o] = "live" THEN "closed"
                                     ELSE conn[o]]
  /\ pc' = [pc EXCEPT ![p] = "disconnectTail"]
  /\ running' = p
  /\ UNCHANGED <<scope, serving, sessions, nextObj, userId, client, qrCode, isReady,
                 initializationError, lastEvent, rootExists, disk, call,
                 arg, result, cmds, evCount, restarts, hookVars, histVars>>

\* a destroySession that leaves the entry in the registry
sessionsKeep(u) == sessions

\* this.sessions.delete(userId)
sessionsDelete(u) == [sessions EXCEPT ![u] = NoObj]

\* the end of disconnect (this.client = null, clearSessionFiles) and of
\* destroySession (sessions.delete(userId))
DisconnectTail(p) ==
  /\ pc[p] = "disconnectTail" /\ running = p
  /\ LET u == arg[p].uid
         o == arg[p].obj
     IN  /\ client' = [client EXCEPT ![o] = FALSE]
         /\ lastEvent' = [lastEvent EXCEPT ![o] = "disconnect"]
         /\ IF arg[p].clear
            THEN /\ \E rmOk \in BOOLEAN :
                      /\ disk' = clearSessionFiles(getSessionPath(userId[o]), rmOk)
                      /\ purged' = IF rmOk THEN purged \cup {u} ELSE purged
                 /\ kept' = [k \in AllKeys |-> IF k \in SameDir(u) THEN 0 ELSE kept[k]]
            ELSE /\ disk' = disk
                 /\ purged' = purged
                 /\ kept' = [kept EXCEPT ![u] =
                               IF disk[getSessionPath(u)] # Absent THEN 1 ELSE 0]
         /\ sessions' = sessionsDelete(u)
  /\ AfterDestroy(p)
  /\ UNCHANGED <<scope, serving, nextObj, userId, qrCode, isReady, initializationError, conn, rootExists, call, arg, cmds, evCount, restarts, hookVars>>

\* ---------------------------------------------------------- createSession
\* what follows createSession in its caller: the route answers, or
\* restoreSessions goes on with the next discovered identifier
\* a restoreSessions whose loop ends at the first createSession that throws
restoreAbort(todo, r) == IF r = "ok" THEN todo ELSE <<>>

\* the identifiers the loop of restoreSessions still has to restore after the
\* createSession of one of them ended with r (an error is caught and logged)
restoreRest(todo, r) == todo

AfterCreate(p, r) ==
  IF call[p] = "restore"
  THEN /\ pc' = [pc EXCEPT ![p] = "restoreNext"]
       /\ running' = p
       /\ result' = result
       /\ arg' = [arg EXCEPT ![p].failed =
                    IF r = "ok" THEN @ ELSE @ \cup {arg[p].uid},
                             ![p].att = Append(@, r = "ok"),
                             ![p].todo = restoreRest(@, r)]
  ELSE /\ Respond(p, r)
       /\ arg' = arg

\* new LocalAuth({clientId: `user-${userId}`}) accepts the clientId: every
\* character is a letter, a digit, '_' or '-' (else the constructor throws)
clientIdValid(u) == \A i \in 1 .. Len(u.str) : IsDigit(u.str[i])

\* SessionManager.createSession up to the timer awaited at the end of
\* WhatsAppClient.initialize: the check, the constructor, the insert,
\* cleanupLockFiles, the construction of the external client with its event
\* handlers, and the launch client.initialize() that is not awaited; when the
\* auth strategy rejects the clientId, initialize throws after
\* cleanupLockFiles and createSession throws to its caller
CreateSessionCall(p) ==
  /\ pc[p] = "createSession" /\ running = p
  /\ LET u == arg[p].uid
         o == nextObj + 1
     IN  IF hasSession(u)
         THEN /\ AfterCreate(p, "AlreadyExists")
              /\ UNCHANGED <<sessions, nextObj, objVars, disk, rootExists, purged, kept>>
         ELSE IF ~clientIdValid(u)
         THEN /\ nextObj < MaxObj
              /\ nextObj' = o
              /\ userId' = [userId EXCEPT ![o] = u]
              /\ qrCode' = [qrCode EXCEPT ![o] = 0]
              /\ isReady' = [isReady EXCEPT ![o] = FALSE]
              /\ initializationError' = [initializationError EXCEPT ![o] = FALSE]
              /\ sessions' = [sessions EXCEPT ![u] = o]
              /\ disk' = cleanupLockFiles(disk, getSessionPath(u))
              /\ AfterCreate(p, "InternalError")
              /\ UNCHANGED <<client, conn, lastEvent, rootExists, purged, kept>>
         ELSE /\ nextObj < MaxObj
              /\ nextObj' = o
              /\ userId' = [userId EXCEPT ![o] = u]
              /\ qrCode' = [qrCode EXCEPT ![o] = 0]
              /\ isReady' = [isReady EXCEPT ![o] = FALSE]
              /\ initializationError' = [initializationError EXCEPT ![o] = FALSE]
              /\ sessions' = [sessions EXCEPT ![u] = o]
              /\ disk' = launchClient(cleanupLockFiles(disk, getSessionPath(u)),
                                       getSessionPath(u))
              /\ rootExists' = TRUE
              /\ client' = [client EXCEPT ![o] = TRUE]
              /\ conn' = [conn EXCEPT ![o] = "live"]
              /\ lastEvent' = [lastEvent EXCEPT ![o] = "initialize"]
              /\ purged' = IF call[p] = "restore" THEN purged ELSE purged \ SameDir(u)
              /\ kept' = IF call[p] = "restore" THEN kept
                         ELSE [k \in AllKeys |-> IF k \in SameDir(u) THEN 0 ELSE kept[k]]
              /\ pc' = [pc EXCEPT ![p] = "initialize"]
              /\ running' = 0
              /\ result' = result
              /\ arg' = [arg EXCEPT ![p].obj = o, ![p].old = arg[p].obj]
  /\ UNCHANGED <<scope, serving, call, cmds, evCount, restarts, hookVars>>

\* an initialize that awaits this.client.initialize(): a startup failure of
\* the external client is thrown to the caller
initializeAwaited(o) == IF initializationError[o] THEN "InternalError" ELSE "ok"

\* how initialize ends for object o when its timer fires: the launch
\* this.client.initialize() is not awaited and its rejection is caught
initializeOutcome(o) == "ok"

\* the timer of initialize fires: initialize and createSession return
CreateSessionReturn(p) ==
  /\ pc[p] = "initialize" /\ Free
  /\ AfterCreate(p, initializeOutcome(arg[p].obj))
  /\ UNCHANGED <<scope, serving, sessions, nextObj, objVars, rootExists, disk, call,
                 cmds, evCount, restarts, hookVars, histVars>>

\* --------------------------------------------------------- restoreSessions
\* the identifiers restoreSessions derives from the session directories, in
\* directory order
RECURSIVE SetToSeq(_)
SetToSeq(S) == IF S = {} THEN <<>>
               ELSE LET x == CHOOSE y \in S : \A z \in S : Len(y) < Len(z) \/
                                 (Len(y) = Len(z) /\ ParseInt(LeadingDigits(y)) <= ParseInt(LeadingDigits(z)))
                    IN  <<x>> \o SetToSeq(S \ {x})

\* the identifier restoreSessions derives from a session directory name:
\* parseInt of the digits matched after the prefix
restoreKey(d) == NumKey(ParseInt(LeadingDigits(d)))

\* a directory scan that reports every session directory name it knows,
\* whether or not the directory is there
sessionDirsUnfiltered ==
  LET names == SetToSeq(DirNames)
  IN  [i \in 1 .. Len(names) |-> restoreKey(names[i])]

sessionDirs ==
  LET names == SetToSeq({ d \in DirNames : disk[d] # Absent /\ LeadingDigits(d) # <<>> })
  IN  [i \in 1 .. Len(names) |-> restoreKey(names[i])]

\* SessionManager.restoreSessions up to its loop
RestoreReq(p) ==
  /\ Start(p)
  /\ cmds' = cmds + 1
  /\ call' = [call EXCEPT ![p] = "restore"]
  /\ IF ~rootExists
     THEN /\ rootExists' = TRUE
          /\ Respond(p, "ok")
          /\ arg' = [arg EXCEPT ![p] = NoArg]
     ELSE /\ rootExists' = rootExists
          /\ IF Len(sessionDirs) = 0
             THEN /\ Respond(p, "ok")
                  /\ arg' = [arg EXCEPT ![p] = NoArg]
             ELSE /\ pc' = [pc EXCEPT ![p] = "restoreNext"]
                  /\ running' = p
                  /\ result' = [result EXCEPT ![p] = "none"]
                  /\ arg' = [arg EXCEPT ![p] = [NoArg EXCEPT !.todo = sessionDirs,
                                                            !.n = Len(sessionDirs)]]
  /\ UNCHANGED <<scope, serving, sessions, nextObj, objVars, disk, evCount, restarts,
                 hookVars, histVars>>

\* one turn of the loop of restoreSessions: createSession of the next
\* identifier, or the end of the loop
RestoreNext(p) ==
  /\ pc[p] = "restoreNext" /\ running = p
  /\ IF arg[p].todo = <<>>
     THEN /\ Respond(p, "ok")
          /\ arg' = arg
          /\ kept' = [k \in AllKeys |-> IF kept[k] = 2 THEN 3 ELSE kept[k]]
     ELSE /\ pc' = [pc EXCEPT ![p] = "createSession"]
          /\ arg' = [arg EXCEPT ![p].uid = Head(arg[p].todo),
                                ![p].todo = Tail(arg[p].todo)]
          /\ UNCHANGED <<running, result, kept>>
  /\ UNCHANGED <<scope, serving, sessions, nextObj, objVars, rootExists, disk, call, cmds,
                 evCount, restarts, hookVars, purged>>

\* the process is restarted: memory is lost, the external clients it launched
\* end with it, the disk stays
Restart ==
  /\ Free /\ restarts < scope.restarts
  /\ restarts' = restarts + 1
  /\ sessions' = [k \in AllKeys |-> NoObj]
  /\ userId' = [o \in Objs |-> NumKey(1)]
  /\ client' = [o \in Objs |-> FALSE]
  /\ qrCode' = [o \in Objs |-> 0]
  /\ isReady' = [o \in Objs |-> FALSE]
  /\ initializationError' = [o \in Objs |-> FALSE]
  /\ conn' = [o \in Objs |-> IF conn[o] = "none" THEN "none" ELSE "closed"]
  /\ lastEvent' = [o \in Objs |-> "none"]
  /\ pc' = [p \in Procs |-> "idle"]
  /\ call' = [p \in Procs |-> "none"]
  /\ arg' = [p \in Procs |-> NoArg]
  /\ result' = [p \in Procs |-> "none"]
  /\ running' = 0
  /\ pending' = {}
  /\ posting' = {}
  /\ lastAttempt' = [o \in Objs |-> 0]
  /\ hookMax' = [o \in Objs |-> 0]
  /\ purged' = purged
  /\ kept' = [k \in AllKeys |-> IF kept[k] = 1 THEN 2 ELSE 0]
  /\ UNCHANGED <<scope, serving, nextObj, rootExists, disk, cmds, evCount>>

\* ---------------------------------------------------------------- shutdown
\* Array.from(this.sessions.keys()): the keys of K in insertion order, which
\* is the order in which their Sessions were constructed
RECURSIVE keysInOrder(_)
keysInOrder(K) ==
  IF K = {} THEN <<>>
  ELSE LET k == CHOOSE x \in K : \A y \in K : sessions[x] <= sessions[y]
       IN  <<k>> \o keysInOrder(K \ {k})

\* SIGINT is delivered (SIGTERM raises SIGINT): the handler takes the keys of
\* the registry and enters its loop; the server goes on serving meanwhile
ShutdownSignal(p) ==
  /\ scope.signals /\ serving = "open"
  /\ Free /\ pc[p] = "idle"
  /\ \A q \in Procs : q < p => pc[q] # "idle"
  /\ serving' = "draining"
  /\ call' = [call EXCEPT ![p] = "shutdown"]
  /\ result' = [result EXCEPT ![p] = "none"]
  /\ pc' = [pc EXCEPT ![p] = "drainNext"]
  /\ running' = p
  /\ arg' = [arg EXCEPT ![p] =
               [NoArg EXCEPT !.todo = keysInOrder(getAllSessions),
                             !.n = Cardinality(getAllSessions),
                             !.snap = { sessions[k] : k \in getAllSessions }]]
  /\ UNCHANGED <<scope, sessions, nextObj, objVars, rootExists, disk, cmds,
                 evCount, restarts, hookVars, histVars>>

\* one turn of the loop of the SIGINT handler: destroySession(userId) of the
\* next key, or after the last one server.close()
DrainNext(p) ==
  /\ pc[p] = "drainNext" /\ running = p
  /\ IF arg[p].todo = <<>>
     THEN /\ serving' = "closed"
          /\ Respond(p, "ok")
          /\ arg' = arg
     ELSE /\ serving' = serving
          /\ pc' = [pc EXCEPT ![p] = "destroySession"]
          /\ arg' = [arg EXCEPT ![p].uid = Head(arg[p].todo),
                                ![p].todo = Tail(arg[p].todo),
                                ![p].obj = NoObj,
                                ![p].clear = FALSE,
                                ![p].then = "drain"]
          /\ UNCHANGED <<running, result>>
  /\ UNCHANGED <<scope, sessions, nextObj, objVars, rootExists, disk, call, cmds,
                 evCount, restarts, hookVars, histVars>>

\* the callback of server.close(): no request is in progress any more and
\* process.exit(0) ends the process, and with it the external clients it
\* launched; the disk stays
Exit ==
  /\ serving = "closed" /\ Free
  /\ \A p \in Procs : pc[p] = "idle"
  /\ serving' = "exited"
  /\ sessions' = [k \in AllKeys |-> NoObj]
  /\ userId' = [o \in Objs |-> NumKey(1)]
  /\ client' = [o \in Objs |-> FALSE]
  /\ qrCode' = [o \in Objs |-> 0]
  /\ isReady' = [o \in Objs |-> FALSE]
  /\ initializationError' = [o \in Objs |-> FALSE]
  /\ conn' = [o \in Objs |-> IF conn[o] = "none" THEN "none" ELSE "closed"]
  /\ lastEvent' = [o \in Objs |-> "none"]
  /\ call' = [p \in Procs |-> "none"]
  /\ arg' = [p \in Procs |-> NoArg]
  /\ result' = [p \in Procs |-> "none"]
  /\ pending' = {}
  /\ posting' = {}
  /\ lastAttempt' = [o \in Objs |-> 0]
  /\ hookMax' = [o \in Objs |-> 0]
  /\ UNCHANGED <<scope, pc, running, nextObj, rootExists, disk, cmds, evCount,
                 restarts, histVars>>

\* ------------------------------------------------- external-client events
Live(o) == Free /\ o <= nextObj /\ conn[o] = "live"

Event(o) == Live(o) /\ evCount < scope.events /\ evCount' = evCount + 1

\* what the data of a webhook say of an attachment: hasMedia of the message
\* and whether the downloaded media are included
NoMedia == [hasMedia |-> FALSE, media |-> FALSE]

\* sendWebhook is entered for the event numbered ev of object o, with the
\* endpoint and the data: the POST is
\* started (its outcome is swallowed)
sendWebhook(o, ev, endpoint, data) ==
  /\ lastAttempt' = [lastAttempt EXCEPT ![o] = ev]
  /\ hookMax' = [hookMax EXCEPT ![o] = IF ev > hookMax[o] THEN ev ELSE hookMax[o]]
  /\ posting' = IF scope.hooks
                THEN posting \cup {[obj |-> o, ev |-> ev, endpoint |-> endpoint,
                                     data |-> data, state |-> "sent"]}
                ELSE posting

\* a sendWebhook without its catch: the Session records the failed delivery as
\* its error
webhookFailureRecorded(o, outcome) ==
  initializationError[o] \/ outcome # "response"

\* initializationError of object o once a POST of its webhook settled: the
\* catch of sendWebhook logs a failure and nothing else
webhookSettled(o, outcome) == initializationError[o]

\* the POST of a webhook settles: a response, an error or the timeout of 10 s;
\* sendWebhook returns and the handler that awaited it ends
WebhookSettle(h, outcome) ==
  /\ Free /\ h \in posting /\ h.state = "sent"
  /\ posting' = (posting \ {h}) \cup {[h EXCEPT !.state = outcome]}
  /\ initializationError' =
       [initializationError EXCEPT ![h.obj] = webhookSettled(h.obj, outcome)]
  /\ UNCHANGED <<scope, serving, sessions, nextObj, userId, client, qrCode, isReady,
                 conn, lastEvent, rootExists, disk, pc, call, arg, result,
                 running, cmds, evCount, restarts, pending, lastAttempt,
                 hookMax, histVars>>

\* a handler that finds its Session through the registry, by the userId
handlerTargetRegistered(o) ==
  IF sessions[userId[o]] # NoObj THEN sessions[userId[o]] ELSE o

\* the object whose fields the event handlers of object o write: the arrow
\* functions registered in initialize keep `this`, the object that
\* registered them
handlerTarget(o) == o

\* 'qr': the code is stored, then the handler awaits qrcode.toDataURL (the
\* external client issues codes while it waits for the scan, not after it
\* reported ready, disconnected or a failure)
OnQr(o) ==
  /\ Event(o)
  /\ lastEvent[o] \in {"initialize", "qr", "disconnect"}
  /\ qrCode' = [qrCode EXCEPT ![handlerTarget(o)] = evCount + 1]
  /\ lastEvent' = [lastEvent EXCEPT ![handlerTarget(o)] = "qr"]
  /\ pending' = pending \cup {[obj |-> o, ev |-> evCount + 1, kind |-> "qr"]}
  /\ UNCHANGED <<scope, serving, sessions, nextObj, userId, client, isReady,
                 initializationError, conn, rootExists, disk, pc, call,
                 arg, result, running, cmds, restarts, lastAttempt, hookMax,
                 posting, histVars>>

\* qrcode.toDataURL settles: the qr-ready webhook is sent, or the handler
\* ends with the rejection
RenderDone(t, ok) ==
  /\ Free /\ t \in pending /\ t.kind = "qr"
  /\ pending' = pending \ {t}
  /\ IF ok THEN sendWebhook(t.obj, t.ev, "qr-ready", NoMedia) ELSE UNCHANGED <<lastAttempt, hookMax, posting>>
  /\ UNCHANGED <<scope, serving, sessions, nextObj, objVars, rootExists, disk, pc, call,
                 arg, result, running, cmds, evCount, restarts, histVars>>

\* 'ready': isReady is set, then this.client.info is read (a TypeError when
\* this.client is null) and the connected webhook is sent
OnReady(o) ==
  /\ Event(o)
  /\ isReady' = [isReady EXCEPT ![handlerTarget(o)] = TRUE]
  /\ lastEvent' = [lastEvent EXCEPT ![handlerTarget(o)] = "ready"]
  /\ IF client[o] THEN sendWebhook(o, evCount + 1, "connected", NoMedia)
     ELSE UNCHANGED <<lastAttempt, hookMax, posting>>
  /\ UNCHANGED <<scope, serving, sessions, nextObj, userId, client, qrCode,
                 initializationError, conn, rootExists, disk, pc, call,
                 arg, result, running, cmds, restarts, pending, histVars>>

\* 'message': with media the handler awaits downloadMedia first
OnMessage(o, hasMedia) ==
  /\ Event(o)
  /\ IF hasMedia
     THEN /\ pending' = pending \cup {[obj |-> o, ev |-> evCount + 1, kind |-> "message"]}
          /\ UNCHANGED <<lastAttempt, hookMax, posting>>
     ELSE /\ pending' = pending
          /\ sendWebhook(o, evCount + 1, "message-received", NoMedia)
  /\ UNCHANGED <<scope, serving, sessions, nextObj, objVars, rootExists, disk, pc, call,
                 arg, result, running, cmds, restarts, histVars>>

\* a message handler without the try around downloadMedia: a failed download
\* ends the handler
notifyIfDownloaded(ok) == ok

\* whether the message handler goes on to its webhook after downloadMedia
\* settled: a failure is caught and logged
notifyAfterDownload(ok) == TRUE

\* downloadMedia settles: the message-received webhook is sent, with the
\* attachment when the download succeeded
DownloadDone(t, ok) ==
  /\ Free /\ t \in pending /\ t.kind = "message"
  /\ pending' = pending \ {t}
  /\ IF notifyAfterDownload(ok)
     THEN sendWebhook(t.obj, t.ev, "message-received",
                      [hasMedia |-> TRUE, media |-> ok])
     ELSE UNCHANGED <<lastAttempt, hookMax, posting>>
  /\ UNCHANGED <<scope, serving, sessions, nextObj, objVars, rootExists, disk, pc, call,
                 arg, result, running, cmds, evCount, restarts, histVars>>

\* 'disconnected'
OnDisconnected(o) ==
  /\ Event(o)
  /\ isReady' = [isReady EXCEPT ![handlerTarget(o)] = FALSE]
  /\ lastEvent' = [lastEvent EXCEPT ![handlerTarget(o)] = "disconnected"]
  /\ sendWebhook(o, evCount + 1, "disconnected", NoMedia)
  /\ UNCHANGED <<scope, serving, sessions, nextObj, userId, client, qrCode,
                 initializationError, conn, rootExists, disk, pc, call,
                 arg, result, running, cmds, restarts, pending, histVars>>

\* 'auth_failure'
OnAuthFailure(o) ==
  /\ Event(o)
  /\ initializationError' = [initializationError EXCEPT ![handlerTarget(o)] = TRUE]
  /\ lastEvent' = [lastEvent EXCEPT ![handlerTarget(o)] = "auth_failure"]
  /\ sendWebhook(o, evCount + 1, "auth-failed", NoMedia)
  /\ UNCHANGED <<scope, serving, sessions, nextObj, userId, client, qrCode, isReady, conn, rootExists, disk, pc, call, arg, result, running, cmds,
                 restarts, pending, histVars>>

\* the launch client.initialize() rejects: the catch stores the error
OnInitError(o) ==
  /\ Event(o)
  /\ lastEvent[o] \in {"initialize", "qr", "disconnect", "auth_failure"}
  /\ initializationError' = [initializationError EXCEPT ![handlerTarget(o)] = TRUE]
  /\ lastEvent' = [lastEvent EXCEPT ![handlerTarget(o)] = "init_error"]
  /\ UNCHANGED <<scope, serving, sessions, nextObj, userId, client, qrCode, isReady, conn, rootExists, disk, pc, call, arg, result, running, cmds,
                 restarts, hookVars, histVars>>

\* the external client, while it runs, writes its session directory again
\* (after the lock files or the directory were removed under it)
ClientPersist(o) ==
  /\ Live(o)
  /\ disk[getSessionPath(userId[o])] # Files
  /\ disk' = launchClient(disk, getSessionPath(userId[o]))
  /\ rootExists' = TRUE
  /\ UNCHANGED <<scope, serving, sessions, nextObj, objVars, pc, call, arg, result, running,
                 cmds, evCount, restarts, hookVars, histVars>>

\* ------------------------------------------------------------------- send
\* WhatsAppClient.sendMessage called on object o: the not-ready error, a
\* TypeError on this.client (null), or the external client's sendMessage
sendMessage(o) ==
  IF ~isReady[o] THEN "NotReady"
  ELSE IF ~client[o] THEN "TypeError"
  ELSE "transport"

\* WhatsAppClient.sendMediaMessage called on object o: the not-ready error,
\* or the download of the media, after which the external client's
\* sendMessage is called
sendMediaMessage(o) ==
  IF ~isReady[o] THEN "NotReady" ELSE "fetch"

\* POST /send-message
SendMessageReq(p, u) ==
  /\ Start(p)
  /\ cmds' = cmds + 1
  /\ call' = [call EXCEPT ![p] = "send-message"]
  /\ LET o == sessions[u]
     IN  /\ arg' = [arg EXCEPT ![p] = [NoArg EXCEPT !.uid = u, !.obj = o]]
         /\ IF o = NoObj \/ ~isReady[o] THEN Respond(p, "NotConnected")
            ELSE IF sendMessage(o) = "transport"
            THEN /\ pc' = [pc EXCEPT ![p] = "send"]
                 /\ result' = [result EXCEPT ![p] = "none"]
                 /\ running' = 0
            ELSE Respond(p, sendMessage(o))
  /\ UNCHANGED <<scope, serving, sessions, nextObj, objVars, rootExists, disk, evCount,
                 restarts, hookVars, histVars>>

\* POST /send-media
SendMediaReq(p, u) ==
  /\ Start(p)
  /\ cmds' = cmds + 1
  /\ call' = [call EXCEPT ![p] = "send-media"]
  /\ LET o == sessions[u]
     IN  /\ arg' = [arg EXCEPT ![p] = [NoArg EXCEPT !.uid = u, !.obj = o]]
         /\ IF o = NoObj \/ ~isReady[o] THEN Respond(p, "NotConnected")
            ELSE IF sendMediaMessage(o) = "fetch"
            THEN /\ pc' = [pc EXCEPT ![p] = "fetch"]
                 /\ result' = [result EXCEPT ![p] = "none"]
                 /\ running' = 0
            ELSE Respond(p, sendMediaMessage(o))
  /\ UNCHANGED <<scope, serving, sessions, nextObj, objVars, rootExists, disk, evCount,
                 restarts, hookVars, histVars>>

\* axios.get of the media settles: its failure is thrown, else
\* this.client.sendMessage is called (a TypeError when this.client is null)
FetchReturn(p, ok) ==
  /\ pc[p] = "fetch" /\ Free
  /\ IF ~ok THEN Respond(p, "FetchError")
     ELSE IF ~client[arg[p].obj] THEN Respond(p, "TypeError")
     ELSE /\ pc' = [pc EXCEPT ![p] = "send"]
          /\ UNCHANGED <<result, running>>
  /\ UNCHANGED <<scope, serving, sessions, nextObj, objVars, rootExists, disk, call, arg,
                 cmds, evCount, restarts, hookVars, histVars>>

\* the external client's sendMessage settles: the receipt, or its error
SendReturn(p, ok) ==
  /\ pc[p] = "send" /\ Free
  /\ Respond(p, IF ok THEN "ok" ELSE "TransportError")
  /\ UNCHANGED <<scope, serving, sessions, nextObj, objVars, rootExists, disk, call, arg,
                 cmds, evCount, restarts, hookVars, histVars>>

\* ------------------------------------------------------------- send-bulk
\* a send-bulk loop that leaves the loop at the first failing item
bulkAbort(items) == <<>>

\* the messages left for the loop of send-bulk after the catch block recorded
\* the failure of the first of them
bulkRest(items) == Tail(items)

\* iterations of the loop whose sendMessage throws before it awaits anything
\* (not ready, or this.client is null): each is caught and recorded as failed
RECURSIVE bulkFailAll(_)
bulkFailAll(a) ==
  IF a.items = <<>> THEN a
  ELSE bulkFailAll([a EXCEPT !.results = Append(@, [to |-> Head(a.items), success |-> FALSE]),
                             !.att = Append(@, FALSE),
                             !.items = bulkRest(a.items)])

\* the loop of send-bulk goes on with locals a, up to its next suspension or
\* to the response
BulkContinue(p, a) ==
  IF a.items # <<>> /\ sendMessage(a.obj) = "transport"
  THEN /\ pc' = [pc EXCEPT ![p] = "bulkSend"]
       /\ running' = 0
       /\ result' = [result EXCEPT ![p] = "none"]
       /\ arg' = [arg EXCEPT ![p] = a]
  ELSE /\ Respond(p, "ok")
       /\ arg' = [arg EXCEPT ![p] = bulkFailAll(a)]

\* POST /send-bulk with a list of n messages
SendBulkReq(p, u, n) ==
  /\ Start(p)
  /\ cmds' = cmds + 1
  /\ call' = [call EXCEPT ![p] = "send-bulk"]
  /\ LET o == sessions[u]
     IN  IF o = NoObj \/ ~isReady[o]
         THEN /\ Respond(p, "NotConnected")
              /\ arg' = [arg EXCEPT ![p] = [NoArg EXCEPT !.uid = u, !.obj = o]]
         ELSE BulkContinue(p, [NoArg EXCEPT !.uid = u, !.obj = o, !.n = n,
                                            !.items = [i \in 1 .. n |-> i]])
  /\ UNCHANGED <<scope, serving, sessions, nextObj, objVars, rootExists, disk, evCount,
                 restarts, hookVars, histVars>>

\* the sendMessage awaited by the loop settles: a receipt (the result is
\* pushed and the loop awaits its delay timer) or an error (caught, the
\* failure is pushed and the loop goes on)
BulkSendReturn(p, ok) ==
  /\ pc[p] = "bulkSend" /\ Free
  /\ LET a == arg[p]
         pushed == [a EXCEPT !.results = Append(@, [to |-> Head(a.items), success |-> ok]),
                             !.att = Append(@, ok)]
     IN  IF ok
         THEN /\ pc' = [pc EXCEPT ![p] = "bulkDelay"]
              /\ arg' = [arg EXCEPT ![p] = [pushed EXCEPT !.items = Tail(a.items)]]
              /\ UNCHANGED <<result, running>>
         ELSE BulkContinue(p, [pushed EXCEPT !.items = bulkRest(a.items)])
  /\ UNCHANGED <<scope, serving, sessions, nextObj, objVars, rootExists, disk, call,
                 cmds, evCount, restarts, hookVars, histVars>>

\* the delay timer between two messages fires
BulkDelayDone(p) ==
  /\ pc[p] = "bulkDelay" /\ Free
  /\ BulkContinue(p, arg[p])
  /\ UNCHANGED <<scope, serving, sessions, nextObj, objVars, rootExists, disk, call,
                 cmds, evCount, restarts, hookVars, histVars>>

\* ------------------------------------------------------------ specification
Next ==
  \/ \E p \in Procs, u \in ids, force \in BOOLEAN, clearSession \in BOOLEAN :
        InitReq(p, u, force, clearSession)
  \/ \E p \in Procs, u \in ids : ReconnectReq(p, u)
  \/ \E p \in Procs, u \in ids, clearSession \in BOOLEAN :
        DisconnectReq(p, u, clearSession)
  \/ \E p \in Procs : DestroySessionCall(p)
  \/ \E p \in Procs : LogoutReturn(p)
  \/ \E p \in Procs, out \in {"closed", "failedBrowser", "failedNoBrowser"} :
        DestroyReturn(p, out)
  \/ \E p \in Procs, ok \in BOOLEAN : ForceCloseReturn(p, ok)
  \/ \E p \in Procs : DisconnectTail(p)
  \/ \E p \in Procs : CreateSessionCall(p)
  \/ \E p \in Procs : CreateSessionReturn(p)
  \/ \E p \in Procs : RestoreReq(p)
  \/ \E p \in Procs : RestoreNext(p)
  \/ Restart
  \/ \E p \in Procs : ShutdownSignal(p)
  \/ \E p \in Procs : DrainNext(p)
  \/ Exit
  \/ \E o \in Objs : OnQr(o)
  \/ \E t \in pending, ok \in BOOLEAN : RenderDone(t, ok)
  \/ \E o \in Objs : OnReady(o)
  \/ \E o \in Objs, hasMedia \in BOOLEAN : OnMessage(o, hasMedia)
  \/ \E t \in pending, ok \in BOOLEAN : DownloadDone(t, ok)
  \/ \E h \in posting, outcome \in {"response", "error", "timeout"} :
       WebhookSettle(h, outcome)
  \/ \E o \in Objs : OnDisconnected(o)
  \/ \E o \in Objs : OnAuthFailure(o)
  \/ \E o \in Objs : OnInitError(o)
  \/ \E o \in Objs : ClientPersist(o)
  \/ \E p \in Procs, u \in ids : SendMessageReq(p, u)
  \/ \E p \in Procs, u \in ids : SendMediaReq(p, u)
  \/ \E p \in Procs, ok \in BOOLEAN : FetchReturn(p, ok)
  \/ \E p \in Procs, ok \in BOOLEAN : SendReturn(p, ok)
  \/ \E p \in Procs, u \in ids, n \in 0 .. MaxBulk : SendBulkReq(p, u, n)
  \/ \E p \in Procs, ok \in BOOLEAN : BulkSendReturn(p, ok)
  \/ \E p \in Procs : BulkDelayDone(p)

Spec == Init /\ [][Next]_vars

\* ================================================================== claims
Allocated == 1 .. nextObj

\* the connection state of section 4.1 that the last lifecycle event handled
\* by a Session stands for
ConnectionState(o) ==
  CASE lastEvent[o] = "none" -> "Uninitialized"
    [] lastEvent[o] \in {"initialize", "qr"} -> "AwaitingScan"
    [] lastEvent[o] = "ready" -> "Connected"
    [] lastEvent[o] \in {"disconnected", "disconnect"} -> "Disconnected"
    [] OTHER -> "Error"

\* ---- C1
\* C1: a destroySession that resumes after its awaited disconnect removes
\* from the registry only the Session it disconnected (else that other
\* Session stays live but untracked and a further Session is created for the
\* same userId beside it).
C1_DestroyRemovesOnlyItsOwn ==
  [][\A p \in Procs :
        DisconnectTail(p) => sessions[arg[p].uid] \in {NoObj, arg[p].obj}]_vars

\* ---- C2
\* C2: createSession checks and inserts in one step: an invocation that finds
\* the id tracked registers nothing, fails with already-exists and leaves the
\* registry as it is; an invocation that finds it untracked registers its
\* Session in the same step; and no step replaces a tracked Session by
\* another one, so of two concurrent invocations only one registers.
C2_CreateCheckInsertAtomic ==
  [][/\ \A u \in AllKeys :
          sessions[u] # NoObj => sessions'[u] \in {sessions[u], NoObj}
     /\ \A p \in Procs :
          (pc[p] = "createSession" /\ pc'[p] # "createSession") =>
             IF sessions[arg[p].uid] # NoObj
             THEN /\ sessions' = sessions
                  /\ nextObj' = nextObj
                  /\ IF call[p] = "restore"
                     THEN arg[p].uid \in arg'[p].failed
                     ELSE result'[p] = "AlreadyExists"
             ELSE /\ sessions'[arg[p].uid] = nextObj'
                  /\ nextObj' = nextObj + 1
                  /\ clientIdValid(arg[p].uid) => pc'[p] = "initialize"]_vars

\* C2 witness: two invocations of createSession for one id are in progress at
\* once: one has registered its Session and awaits initialize, the other has
\* failed with already-exists.
C2_Witness ==
  \E p, q \in Procs :
     /\ p # q
     /\ pc[p] = "initialize" /\ sessions[arg[p].uid] = arg[p].obj
     /\ call[q] = "restore" /\ arg[p].uid \in arg[q].failed

\* ---- C3
\* C3: at the moment createSession(id) succeeds hasSession(id) and
\* getSessionStatus(id).exists are true, and from then on the entry of id is
\* removed only by the step that completes a destroySession(id).
C3_TrackedFromCreateToDestroy ==
  [][/\ \A p \in Procs :
          CreateSessionReturn(p) =>
             /\ hasSession(arg[p].uid)'
             /\ getSessionStatus(arg[p].uid)'.exists
     /\ \A u \in AllKeys :
          (hasSession(u) /\ ~hasSession(u)') =>
             \/ \E p \in Procs : DisconnectTail(p) /\ arg[p].uid = u
             \/ Restart]_vars

\* ---- C4
\* C4: in every reachable state, sendMessage and sendMediaMessage called on a
\* Session whose connection state is not Connected fail with the not-ready
\* error (and so never reach the external client's send operation).
C4_SendNeedsConnected ==
  \A o \in Allocated :
     ConnectionState(o) # "Connected" =>
        /\ sendMessage(o) = "NotReady"
        /\ sendMediaMessage(o) = "NotReady"

\* ---- C5
\* C5: pendingCode is non-empty only while the Session is in AwaitingScan,
\* and status never reports a code for a Session that is Connected or
\* Disconnected.
C5_CodeOnlyWhileAwaitingScan ==
  /\ \A o \in Allocated : qrCode[o] # 0 => ConnectionState(o) = "AwaitingScan"
  /\ \A u \in AllKeys :
        (sessions[ParamKey(u)] # NoObj /\
         ConnectionState(sessions[ParamKey(u)]) \in {"Connected", "Disconnected"}) =>
           /\ StatusOf(u).qrCode = 0
           /\ StatusOf(u).status # "waiting_scan"
           /\ GetCode(u).qrCode = 0

\* ---- C6
\* C6: after an auth-failed event, until a later ready event or
\* re-initialization, lastError is set and the Session is not Connected:
\* getSessionStatus.connected is false and status reports error.
C6_AuthFailureGivesError ==
  /\ \A o \in Allocated :
        lastEvent[o] = "auth_failure" => initializationError[o] /\ ~isReady[o]
  /\ \A u \in AllKeys :
        (sessions[ParamKey(u)] # NoObj /\
         lastEvent[sessions[ParamKey(u)]] = "auth_failure") =>
           /\ ~getSessionStatus(ParamKey(u)).connected
           /\ StatusOf(u).status = "error"

\* ---- C7
\* C7: for one Session, webhook attempts are started in the order of the
\* events that triggered them: the latest attempt is never for an earlier
\* event than an attempt already made.
C7_WebhooksInEventOrder ==
  \A o \in Allocated : lastAttempt[o] = hookMax[o]

\* ---- C8
\* C8: a step that deletes a user's credential artifact is taken only when no
\* external client connection working in that artifact is live.
C8_DeleteOnlyAfterTeardown ==
  [][\A d \in DirNames :
        (disk[d] # Absent /\ disk'[d] = Absent) =>
           ~\E o \in Allocated : conn[o] = "live" /\ getSessionPath(userId[o]) = d]_vars

\* ---- C9
\* C9: once destroySession(id, clearCredentials=true) has completed without a
\* failure of the removal itself (and no createSession(id) was commanded
\* since), the credential artifact of id does
\* not exist, id is not among the identifiers restoreSessions discovers, and
\* no restoreSessions is creating a session for it.
C9_NoRestoreAfterClear ==
  \A u \in purged :
     /\ disk[getSessionPath(u)] = Absent
     /\ \A i \in 1 .. Len(sessionDirs) : getSessionPath(sessionDirs[i]) # getSessionPath(u)
     /\ \A p \in Procs :
           (call[p] = "restore" /\ pc[p] # "idle") =>
              \A i \in 1 .. Len(arg[p].todo) :
                 getSessionPath(arg[p].todo[i]) # getSessionPath(u)

\* ---- C10
\* C10: after destroySession(id, clearCredentials=false) on a session whose
\* credential artifact exists, a process restart and a completed
\* restoreSessions(), with no other command for id in between, hasSession(id)
\* is true.
C10_RestoreAfterKeep ==
  \A u \in AllKeys : kept[u] = 3 => hasSession(u)

\* ---- C11
\* the session directory d holds a credential artifact restoreSessions would
\* discover
Discoverable(d) == disk[d] # Absent /\ LeadingDigits(d) # <<>>

\* C11: process start populates the registry from disk without any command:
\* when the process has started, every user whose credential artifact exists
\* on disk has a tracked Session, or the restoreSessions run of the start-up
\* is under way.
C11_RegistryPopulatedAtStartup ==
  [][Restart =>
       \A d \in DirNames :
          Discoverable(d)' =>
             \/ \E u \in AllKeys : sessions'[u] # NoObj /\ getSessionPath(u) = d
             \/ \E p \in Procs : call'[p] = "restore" /\ pc'[p] # "idle"]_vars

\* ---- C12
\* C12: when disconnect returns, whatever was delivered while it awaited
\* logout or termination, the Session is Disconnected: not ready, no pending
\* code, no last error and no external client object held.
C12_DisconnectedWhenDisconnectReturns ==
  [][\A p \in Procs :
        DisconnectTail(p) =>
           /\ ~isReady'[arg[p].obj]
           /\ qrCode'[arg[p].obj] = 0
           /\ ~initializationError'[arg[p].obj]
           /\ ~client'[arg[p].obj]]_vars

\* ---- C13
\* what a Session and its credential artifact look like: the fields of the
\* object, whether a teardown was performed on the external client, and the
\* session directory
SessionState(o) ==
  [isReady |-> isReady[o], qrCode |-> qrCode[o],
   initializationError |-> initializationError[o], client |-> client[o],
   teardown |-> FALSE, files |-> disk[getSessionPath(userId[o])]]

\* WhatsAppClient.disconnect(clearSession) called on object o in the current
\* state, seen at its end: the fields are reset, logout / destroy are called
\* when this.client is set, this.client is null and the session directory is
\* removed when clearSession is set (rmOk: rmSync does not throw)
disconnect(o, clearSession, rmOk) ==
  [isReady |-> FALSE, qrCode |-> 0, initializationError |-> FALSE,
   client |-> FALSE, teardown |-> client[o],
   files |-> IF clearSession
             THEN clearSessionFiles(getSessionPath(userId[o]), rmOk)[getSessionPath(userId[o])]
             ELSE disk[getSessionPath(userId[o])]]

\* a call of disconnect on o now, with rmSync behaving as it did in the call
\* that just returned, would change nothing and tear nothing down
DisconnectChangesNothing(o, clearSession) ==
  disconnect(o, clearSession, disk[getSessionPath(userId[o])] = Absent) = SessionState(o)

\* C13: disconnect is idempotent: a second call right after disconnect has
\* returned, with the same clearCredentials, leaves the Session state and the
\* credential artifact as after the first call and performs no logout or
\* termination on the external client.
C13_DisconnectIdempotent ==
  [][\A p \in Procs :
        DisconnectTail(p) => DisconnectChangesNothing(arg[p].obj, arg[p].clear)']_vars

\* ---- C14
\* request p's call of destroySession returns to the route
DestroyCompletes(p) ==
  /\ pc[p] \in {"destroySession", "disconnectTail"}
  /\ pc'[p] \in {"createSession", "idle"}

\* C14: destroySession never fails outward: whatever inner steps failed, the
\* step that completes it leaves id untracked and the route goes on (answers
\* success, or calls createSession), and the createSession(id) a route issues
\* after destroySession returned does not fail with already-exists: it
\* registers a Session.
C14_DestroyNeverFailsOutward ==
  [][\A p \in Procs :
        /\ DestroyCompletes(p) =>
              /\ sessions'[arg[p].uid] = NoObj
              /\ pc'[p] = "idle" => result'[p] = "ok"
        /\ (pc[p] = "createSession" /\ arg[p].then = "createSession" /\
            pc'[p] # "createSession") =>
              /\ result'[p] # "AlreadyExists"
              /\ clientIdValid(arg[p].uid) =>
                    /\ pc'[p] = "initialize"
                    /\ sessions'[arg[p].uid] = arg'[p].obj]_vars

\* C14 witness: a reconnect whose destroySession met a failing teardown (the
\* old external client of the user is still live, its Session gone from the
\* registry) has gone on to createSession, which registered a new Session.
C14_Witness ==
  \E p \in Procs, o \in Allocated :
     /\ call[p] = "reconnect" /\ pc[p] = "initialize"
     /\ o # arg[p].obj /\ userId[o] = arg[p].uid
     /\ conn[o] = "live" /\ ~client[o]
     /\ sessions[arg[p].uid] = arg[p].obj

\* ---- C15
\* request p is a disconnect command with clearSession for a userId that has
\* no tracked Session but a credential artifact on disk, at the step in which
\* destroySession handles it
PurgeUntracked(p) ==
  /\ DestroySessionCall(p)
  /\ call[p] = "disconnect" /\ arg[p].clear
  /\ sessions[arg[p].uid] = NoObj
  /\ disk[getSessionPath(arg[p].uid)] # Absent

C16_ErrorOnlyWhileInError ==
  /\ \A o \in Allocated :
        initializationError[o] => ConnectionState(o) = "Error"
  /\ \A u \in AllKeys :
        (sessions[ParamKey(u)] # NoObj /\
         ConnectionState(sessions[ParamKey(u)]) = "Connected") =>
           /\ ~StatusOf(u).error
           /\ StatusOf(u).status # "error"

\* the sent and failed counts of the send-bulk response
BulkSent(results) == Cardinality({i \in 1 .. Len(results) : results[i].success})
BulkFailed(results) == Cardinality({i \in 1 .. Len(results) : ~results[i].success})

\* C17: a send-bulk that found its session connected pushes one result per
\* message, in the order of the list and with the outcome of that message's
\* send; a failed send does not end the loop; the response is a success with
\* one result per message and sent + failed equal to the length of the list,
\* and when exactly one send failed, failed is 1 and sent is the length less 1.
C17_BulkOneResultPerItem ==
  \A p \in Procs :
    call[p] = "send-bulk" /\ result[p] # "NotConnected" =>
      LET a == arg[p]
      IN  /\ Len(a.results) + Len(a.items) = a.n
          /\ Len(a.att) = Len(a.results)
          /\ \A i \in 1 .. Len(a.results) :
               a.results[i].to = i /\ a.results[i].success = a.att[i]
          /\ \A i \in 1 .. Len(a.items) : a.items[i] = Len(a.results) + i
          /\ pc[p] = "idle" =>
               /\ result[p] = "ok"
               /\ Len(a.results) = a.n
               /\ BulkSent(a.results) + BulkFailed(a.results) = a.n
               /\ Cardinality({i \in 1 .. a.n : ~a.att[i]}) = 1 =>
                    BulkFailed(a.results) = 1 /\ BulkSent(a.results) = a.n - 1

\* a send-bulk of the longest list has answered, its second send alone failed
C17_Witness ==
  \E p \in Procs :
    /\ call[p] = "send-bulk" /\ pc[p] = "idle" /\ result[p] = "ok"
    /\ arg[p].n = MaxBulk
    /\ arg[p].att = [i \in 1 .. MaxBulk |-> i # 2]
    /\ BulkFailed(arg[p].results) = 1

\* C18: get-code follows the events of the tracked Session: a newly tracked
\* Session answers initializing and keeps that answer until a code or ready
\* event; a code event before ready makes it answer waiting_scan with that
\* code, and the answer stays waiting_scan with the most recent code until
\* ready; a ready event makes it answer connected, status reports connected,
\* and every later answer for that Session is connected; an untracked userId
\* is answered not_found.
C18_GetCodeFollowsEvents ==
  [][\A k \in AllKeys :
       /\ sessions'[k] = NoObj /\ sessions'[ParamKey(k)] = NoObj =>
            GetCode(k)'.status = "not_found"
       /\ sessions'[k] # NoObj /\ sessions'[k] # sessions[k] =>
            GetCode(k)'.status = "initializing"
       /\ sessions[k] # NoObj /\ sessions'[k] = sessions[k] =>
            LET o == sessions[k]
            IN  /\ GetCode(k).status = "initializing" /\ evCount' = evCount =>
                     GetCode(k)'.status = "initializing"
                /\ OnQr(o) /\ GetCode(k).status # "connected" =>
                     GetCode(k)' = [status |-> "waiting_scan", qrCode |-> evCount']
                /\ GetCode(k).status = "waiting_scan" /\ ~OnQr(o) =>
                     \/ GetCode(k)' = GetCode(k)
                     \/ OnReady(o) /\ GetCode(k)'.status = "connected"
                /\ OnReady(o) =>
                     GetCode(k)'.status = "connected" /\ StatusOf(k)'.connected
                /\ GetCode(k).status = "connected" =>
                     GetCode(k)'.status = "connected" /\ StatusOf(k)'.connected]_vars

\* C19: an init without force for a tracked userId answers already-exists
\* and changes neither the registry nor any Session nor the storage; an init
\* with force for a tracked userId has disconnected the old Session and
\* removed it from the registry when it goes on to createSession, and when it
\* returns, the Session tracked for the userId is the one it created, not the
\* old one.
C19_InitOnTrackedUser ==
  [][\A p \in Procs :
       /\ \A u \in ids, c \in BOOLEAN :
            InitReq(p, u, FALSE, c) /\ hasSession(u) =>
              /\ result'[p] = "AlreadyExists" /\ pc'[p] = "idle"
              /\ UNCHANGED <<sessions, objVars, disk>>
       /\ call[p] = "init" /\ DisconnectTail(p) =>
            /\ pc'[p] = "createSession"
            /\ sessions'[arg[p].uid] = NoObj
            /\ ~client'[arg[p].obj] /\ ConnectionState(arg[p].obj)' = "Disconnected"
       /\ call[p] = "init" /\ arg[p].old # NoObj /\ CreateSessionReturn(p) =>
            /\ result'[p] = "ok"
            /\ sessions'[arg[p].uid] = arg[p].obj
            /\ arg[p].obj # arg[p].old]_vars

\* the credential artifact of a session directory: the directory and what
\* the external client keeps in it, without the lock files that
\* cleanupLockFiles removes
CredentialArtifact(d) == disk[d] \ LockFiles

\* request p completes a teardown with clearCredentials that its caller asked
\* for: clearSession in the body of /disconnect or /init, or a /reconnect
ExplicitClear(p, d) ==
  /\ DisconnectTail(p) \/ DestroySessionCall(p)
  /\ arg[p].clear /\ getSessionPath(arg[p].uid) = d
  /\ \/ call[p] \in {"disconnect", "reconnect"}
     \/ call[p] = "init" /\ arg[p].bodyClear

\* C20: a credential artifact that exists is changed by no step other than a
\* teardown whose caller asked for clear-session; in particular an init with
\* force and without clearSession leaves it as it is.
C20_ArtifactKeptUnlessClearRequested ==
  [][\A d \in DirNames :
       CredentialArtifact(d) # {} /\ CredentialArtifact(d)' # CredentialArtifact(d) =>
         \E p \in Procs : ExplicitClear(p, d)]_vars

\* what the registry and the fields hold of the Session tracked under k
TrackedSession(k) ==
  [obj |-> sessions[k], userId |-> userId[sessions[k]],
   client |-> client[sessions[k]], qrCode |-> qrCode[sessions[k]],
   isReady |-> isReady[sessions[k]],
   initializationError |-> initializationError[sessions[k]]]

\* restoreSessions of request p: how far its loop is
RestoreProgress(p) ==
  Len(arg[p].att) + Len(arg[p].todo) +
    (IF pc[p] \in {"createSession", "initialize"} THEN 1 ELSE 0)

\* a step of the restoreSessions of request p
RestoreStep(p) ==
  /\ call'[p] = "restore"
  /\ call[p] # "restore" \/ pc'[p] # pc[p] \/ arg'[p] # arg[p]

\* C21: restoreSessions calls createSession for every identifier it found,
\* whichever of them fail (an identifier that is already tracked fails with
\* already-exists): it ends without an error after one attempt per
\* identifier, the identifiers logged as failed are those whose attempt
\* failed, and none of its steps changes a Session that was already tracked.
C21_RestoreIsolatesFailures ==
  [][\A p \in Procs :
       RestoreStep(p) =>
         /\ RestoreProgress(p)' = arg'[p].n
         /\ pc'[p] = "idle" =>
              /\ result'[p] = "ok"
              /\ Len(arg'[p].att) = arg'[p].n
              /\ (arg'[p].failed = {}) = (\A i \in 1 .. arg'[p].n : arg'[p].att[i])
         /\ \A k \in AllKeys :
              sessions[k] # NoObj => TrackedSession(k)' = TrackedSession(k)]_vars

\* a restoreSessions that found two identifiers has ended: the createSession
\* of the first failed (it was already tracked), the second was restored
C21_Witness ==
  \E p \in Procs :
    /\ call[p] = "restore" /\ pc[p] = "idle" /\ result[p] = "ok"
    /\ arg[p].n = 2 /\ arg[p].att = <<FALSE, TRUE>>
    /\ sessions[arg[p].uid] = arg[p].obj

\* C22: a restoreSessions that finds no storage root creates it, and one that
\* finds the root without any session directory leaves it as it is; both
\* return at once without an error and register no Session.
C22_RestoreOnEmptyStorage ==
  [][\A p \in Procs :
       RestoreReq(p) /\ (~rootExists \/ \A d \in DirNames : disk[d] = Absent) =>
         /\ rootExists'
         /\ pc'[p] = "idle" /\ result'[p] = "ok"
         /\ sessions' = sessions /\ nextObj' = nextObj /\ disk' = disk]_vars

\* restoreSessions has returned after it created the storage root: nothing
\* else creates the root without constructing a Session
C22_Witness ==
  \E p \in Procs :
    /\ call[p] = "restore" /\ pc[p] = "idle" /\ result[p] = "ok"
    /\ rootExists /\ nextObj = 0
    /\ \A k \in AllKeys : sessions[k] = NoObj

\* the state the lifecycle events of object o have left it in
LifecycleState(o) ==
  [state |-> ConnectionState(o), isReady |-> isReady[o], qrCode |-> qrCode[o],
   initializationError |-> initializationError[o], client |-> client[o]]

\* C23: when the POST of a webhook settles, with a response, an error or the
\* timeout, no Session changes its connection state, code or error and no
\* request is answered or moved; and whatever POSTs are unsettled, the
\* handlers of the lifecycle events of a live Session can run and apply
\* their transition.
C23_WebhookNeverReachesSession ==
  /\ [][\A h \in posting, outcome \in {"response", "error", "timeout"} :
          WebhookSettle(h, outcome) =>
            /\ \A o \in Objs : LifecycleState(o)' = LifecycleState(o)
            /\ UNCHANGED <<sessions, pc, result, disk>>]_vars
  /\ [](\A o \in Allocated :
          Live(o) /\ evCount < scope.events =>
            /\ ENABLED OnReady(o)
            /\ ENABLED OnDisconnected(o)
            /\ ENABLED OnAuthFailure(o))

\* the POST of the first event of a Session (an auth failure) never got a
\* response, the POST of its second event failed, and its third event, ready,
\* has made it Connected
C23_Witness ==
  \E o \in Allocated :
    /\ \E h \in posting : h.obj = o /\ h.ev = 1 /\ h.state = "sent" /\
                          h.endpoint = "auth-failed"
    /\ \E h \in posting : h.obj = o /\ h.ev = 2 /\ h.state \in {"error", "timeout"}
    /\ \E h \in posting : h.obj = o /\ h.ev = 3 /\ h.endpoint = "connected"
    /\ evCount = 3 /\ lastEvent[o] = "ready" /\ isReady[o]
    /\ initializationError[o]

\* C24: a createSession that launched the external client can return as soon
\* as no handler runs, whatever the client has emitted or not, and it returns
\* without an error; a startup failure of the external client is stored in
\* the Session and changes no request.
C24_CreateReturnsAfterLaunch ==
  /\ [](\A p \in Procs : pc[p] = "initialize" /\ Free => ENABLED CreateSessionReturn(p))
  /\ [][\A p \in Procs :
          /\ CreateSessionReturn(p) =>
               IF call[p] = "restore" THEN arg'[p].failed = arg[p].failed
               ELSE result'[p] = "ok" /\ pc'[p] = "idle"
          /\ \A o \in Objs :
               OnInitError(o) =>
                 /\ initializationError'[o]
                 /\ UNCHANGED <<pc, result, arg, sessions>>]_vars

\* an init has answered success for a Session whose external client failed
\* its startup and emitted nothing else
C24_Witness ==
  \E p \in Procs :
    /\ call[p] = "init" /\ pc[p] = "idle" /\ result[p] = "ok"
    /\ sessions[arg[p].uid] = arg[p].obj
    /\ lastEvent[arg[p].obj] = "init_error" /\ evCount = 1
    /\ initializationError[arg[p].obj]

\* the message-received notifications attempted or still to attempt: the POSTs
\* to that endpoint and the message handlers waiting for their download
MessageNotices ==
  Cardinality({h \in posting : h.endpoint = "message-received"}) +
  Cardinality({t \in pending : t.kind = "message"})

\* C25: every message event adds exactly one message-received notification,
\* attempted at once or, with an attachment, when the download has settled;
\* a settled download always leads to the attempt, with the attachment only
\* when the download succeeded; no other step adds or drops one, and the
\* handler waiting for a download can always go on.
C25_OneNoticePerMessage ==
  /\ [](\A t \in pending : t.kind = "message" /\ Free =>
          ENABLED DownloadDone(t, TRUE) /\ ENABLED DownloadDone(t, FALSE))
  /\ [][scope.hooks =>
          /\ MessageNotices' =
               MessageNotices +
                 (IF \E o \in Objs, hasMedia \in BOOLEAN : OnMessage(o, hasMedia)
                  THEN 1 ELSE 0)
          /\ \A t \in pending, ok \in BOOLEAN :
               DownloadDone(t, ok) =>
                 \E h \in posting' \ posting :
                   /\ h.obj = t.obj /\ h.ev = t.ev
                   /\ h.data = [hasMedia |-> TRUE, media |-> ok]
                   /\ h.endpoint = "message-received"
                   /\ posting' = posting \cup {h}
          /\ \A o \in Objs : OnMessage(o, FALSE) =>
               \E h \in posting' \ posting :
                 /\ h.obj = o /\ h.ev = evCount' /\ h.data = NoMedia
                 /\ h.endpoint = "message-received"
                 /\ posting' = posting \cup {h}]_vars

\* the download of the attachment of a message failed and its
\* message-received notification was attempted without the attachment
C25_Witness ==
  \E h \in posting :
    /\ h.endpoint = "message-received"
    /\ h.data = [hasMedia |-> TRUE, media |-> FALSE]
    /\ \A t \in pending : t.ev # h.ev

\* C26: the read queries answer from the registry and the Session as they
\* are: hasSession and getAllSessions name exactly the tracked ids, and
\* getSessionStatus(id) answers exists false, connected false for an untracked
\* id and else exists true with connected equal to whether the Session is
\* Connected.
C26_QueriesReportCurrentState ==
  \A u \in AllKeys :
    /\ hasSession(u) = (u \in getAllSessions)
    /\ getSessionStatus(u) =
         IF sessions[u] = NoObj THEN [exists |-> FALSE, connected |-> FALSE]
         ELSE [exists |-> TRUE,
               connected |-> ConnectionState(sessions[u]) = "Connected"]

\* request p makes a step (Restart apart), for the user it then works on
RequestStep(p) ==
  /\ restarts' = restarts
  /\ pc'[p] # pc[p] \/ call'[p] # call[p] \/ arg'[p] # arg[p] \/ result'[p] # result[p]

\* a handler of the external client of object o, or that client itself, acts
ClientStep(o) ==
  \/ OnQr(o) \/ OnReady(o) \/ OnDisconnected(o) \/ OnAuthFailure(o)
  \/ OnInitError(o) \/ ClientPersist(o)
  \/ \E hasMedia \in BOOLEAN : OnMessage(o, hasMedia)

\* what user B has: the registry entry, the fields of the tracked Session and
\* the credential artifact
UserState(B) ==
  [entry |-> sessions[B],
   session |-> IF sessions[B] = NoObj THEN <<>> ELSE <<LifecycleState(sessions[B])>>,
   artifact |-> CredentialArtifact(getSessionPath(B))]

\* request p is suspended on the external client or on a timer
Suspended(p) == pc[p] # "idle" /\ running # p

\* C27: what a user has changes only in a step of a request for that user or
\* of the external client of one of that user's Sessions (or in a restart);
\* and while a request of one user is suspended, a command for any other user
\* can be taken up and the events of a live Session can be handled.
C27_UsersIndependent ==
  /\ [][\A B \in ids :
          UserState(B)' # UserState(B) =>
            \/ restarts' # restarts
            \/ serving' = "exited"
            \/ \E p \in Procs : RequestStep(p) /\ arg'[p].uid = B
            \/ \E o \in Objs : userId[o] = B /\ ClientStep(o)]_vars
  /\ [](\A p \in Procs :
          Suspended(p) /\ Free =>
            /\ \A B \in ids \ {arg[p].uid} :
                 (cmds < scope.cmds /\ \E q \in Procs : pc[q] = "idle") =>
                   /\ ENABLED (\E q \in Procs : InitReq(q, B, FALSE, FALSE))
                   /\ ENABLED (\E q \in Procs : DisconnectReq(q, B, FALSE))
            /\ \A o \in Allocated :
                 (Live(o) /\ evCount < scope.events) =>
                   ENABLED OnReady(o) /\ ENABLED OnDisconnected(o))

\* C28: the directory name round-trips: when a command creates a Session
\* under a registry key and its external client makes the artifact directory,
\* the identifier restoreSessions derives from that directory name is that
\* same key and names that same directory; and a restoreSessions that starts
\* sets out to register only identifiers whose directory exists.
C28_NamingRoundTrips ==
  [][\A p \in Procs :
       /\ (CreateSessionCall(p) /\ call[p] # "restore" /\
           sessions'[arg[p].uid] # sessions[arg[p].uid]) =>
            /\ disk'[getSessionPath(arg[p].uid)] # Absent
            /\ restoreKey(getSessionPath(arg[p].uid)) = arg[p].uid
            /\ getSessionPath(restoreKey(getSessionPath(arg[p].uid))) =
                 getSessionPath(arg[p].uid)
       /\ RestoreReq(p) =>
            \A i \in 1 .. Len(arg'[p].todo) :
              disk[getSessionPath(arg'[p].todo[i])] # Absent]_vars

\* ---- C29
\* request p is the SIGINT handler inside its loop
Draining(p) == call[p] = "shutdown" /\ pc[p] # "idle"

\* the loop of the SIGINT handler ends: server.close() is called
DrainEnds(p) == Draining(p) /\ serving = "draining" /\ serving' = "closed"

\* C29: the shutdown drain calls destroySession without clearing for every
\* Session tracked when SIGINT arrived: the loop ends only when every key has
\* been attempted and no outcome of a teardown shortens it, the steps of the
\* drain delete no credential artifact, and when the loop ends none of the
\* Sessions tracked at its start is tracked or has a live external client.
C29_ShutdownDrain ==
  [][\A p \in Procs :
        /\ DrainEnds(p) => arg[p].todo = <<>>
        /\ (Draining(p) /\ pc[p] # "drainNext" /\ pc'[p] # pc[p]) =>
              /\ ~arg[p].clear
              /\ arg'[p].todo = arg[p].todo
              /\ pc'[p] \in {"logout", "destroy", "forceClose",
                             "disconnectTail", "drainNext"}
        /\ (Draining(p) /\ pc'[p] # pc[p]) =>
              \A d \in DirNames : CredentialArtifact(d)' = CredentialArtifact(d)
        /\ DrainEnds(p) =>
              \A o \in arg[p].snap :
                /\ \A k \in AllKeys : sessions'[k] # o
                /\ conn'[o] # "live"]_vars

\* ---- C30
\* the createSession of request p ends by throwing an error other than
\* already-exists
CreateFails(p) ==
  /\ pc[p] \in {"createSession", "initialize"} /\ pc'[p] # pc[p]
  /\ serving' # "exited" /\ restarts' = restarts
  /\ sessions[arg[p].uid] = NoObj \/ pc[p] = "initialize"
  /\ IF call[p] = "restore"
     THEN arg'[p].failed # arg[p].failed
     ELSE result'[p] = "InternalError"

\* C30: when createSession(id) throws an error other than already-exists
\* (the constructor or initialize raised), id is untracked afterwards.
C30_FailedCreateLeavesUntracked ==
  [][\A p \in Procs : CreateFails(p) => sessions'[arg[p].uid] = NoObj]_vars

\* ---- C31
\* C31: two distinct tracked keys never share a credential artifact
\* directory: the directories of their Sessions differ.
C31_DistinctKeysDistinctDirectories ==
  \A k1 \in AllKeys, k2 \in AllKeys :
     (k1 # k2 /\ hasSession(k1) /\ hasSession(k2)) =>
        getSessionPath(userId[sessions[k1]]) # getSessionPath(userId[sessions[k2]])

\* ---- C32
\* object o has been destroyed or replaced: no key of the registry holds it
Stale(o) == o \in Allocated /\ \A k \in AllKeys : sessions[k] # o

\* a handler of an event or of a startup failure of object o runs, or goes on
\* after the rendering or the download it awaited
HandlerStep(o) ==
  \/ OnQr(o) \/ OnReady(o) \/ OnDisconnected(o) \/ OnAuthFailure(o)
  \/ OnInitError(o)
  \/ \E hasMedia \in BOOLEAN : OnMessage(o, hasMedia)
  \/ \E t \in pending, ok \in BOOLEAN :
       t.obj = o /\ (RenderDone(t, ok) \/ DownloadDone(t, ok))

\* C32: a handler that runs for a Session no longer in the registry leaves
\* the registry as it is and, when a Session is registered for the same
\* userId, leaves that Session's connection state, code, error and client
\* as they are.
C32_StaleEventsTouchNothingCurrent ==
  [][\A o \in Objs :
        (Stale(o) /\ HandlerStep(o)) =>
           /\ sessions' = sessions
           /\ sessions[userId[o]] # NoObj =>
                /\ isReady'[sessions[userId[o]]] = isReady[sessions[userId[o]]]
                /\ qrCode'[sessions[userId[o]]] = qrCode[sessions[userId[o]]]
                /\ initializationError'[sessions[userId[o]]] =
                     initializationError[sessions[userId[o]]]
                /\ lastEvent'[sessions[userId[o]]] = lastEvent[sessions[userId[o]]]
                /\ client'[sessions[userId[o]]] = client[sessions[userId[o]]]]_vars

\* C32 witness: a Session that was disconnected and removed from the registry
\* while its external client stayed live has handled an event since, and the
\* Session registered for its userId meanwhile is as its creation left it.
C32_Witness ==
  \E o \in Allocated :
    /\ Stale(o) /\ ~client[o] /\ conn[o] = "live"
    /\ lastEvent[o] \in {"qr", "ready", "disconnected", "auth_failure", "init_error"}
    /\ sessions[userId[o]] # NoObj
    /\ lastEvent[sessions[userId[o]]] = "initialize"
    /\ ~isReady[sessions[userId[o]]]
    /\ qrCode[sessions[userId[o]]] = 0
    /\ ~initializationError[sessions[userId[o]]]

\* ---- C33
\* the last lifecycle event the Session under key k handled is an external
\* disconnected or an auth failure
Dropped(k) ==
  /\ hasSession(k)
  /\ lastEvent[sessions[k]] \in {"disconnected", "auth_failure"}

\* C33: a tracked Session whose last event is disconnected or auth_failure
\* is reported with connected false; it leaves the registry only at the end
\* of a destroySession that disconnected it (or when the process ends), no
\* handler of an event launches its external client again, and an init
\* without force for its userId is answered already-exists.
C33_DroppedSessionStaysTracked ==
  /\ [](\A k \in AllKeys : Dropped(k) => ~getSessionStatus(k).connected)
  /\ [][\A k \in AllKeys :
          Dropped(k) =>
            /\ sessions'[k] # sessions[k] =>
                 \/ restarts' # restarts
                 \/ serving' = "exited"
                 \/ \E p \in Procs : DisconnectTail(p) /\ arg[p].obj = sessions[k]
            /\ (\E o \in Objs : HandlerStep(o)) =>
                 /\ sessions'[k] = sessions[k]
                 /\ client'[sessions[k]] = client[sessions[k]]
                 /\ conn'[sessions[k]] = conn[sessions[k]]
            /\ \A p \in Procs, c \in BOOLEAN :
                 InitReq(p, k, FALSE, c) =>
                   /\ result'[p] = "AlreadyExists"
                   /\ pc'[p] = "idle"
                   /\ sessions' = sessions]_vars

====
